---- MODULE Spec2Model ----
(***************************************************************************)
(* A model of onmt/utils/optimizers.py: the learning-rate decay functions, *)
(* the optimizer builder with its discriminative fine-tuning grouping, the *)
(* multi-optimizer adapter and the training controller (Optimizer) with    *)
(* its step counters and checkpoint-resume policies.                       *)
(*                                                                         *)
(* Numbers that are floats in the program are exact rationals <<n, d>>     *)
(* here (d > 0, lowest terms), and a value that is a square root is kept   *)
(* as the rational under the root, so equal values have equal              *)
(* representations.  A Python call that raises is a result with ok = FALSE.*)
(***************************************************************************)
EXTENDS Integers, Sequences, FiniteSets, TLC

VARIABLES ctl, twin, ckpt, trace, last, hist, ada

vars == <<ctl, twin, ckpt, trace, last, hist, ada>>

----------------------------------------------------------------------------
(* Bounds of the model *)

\* step counters are capped: step() is not taken past this value
MaxStep == 4
\* number of decoder layers of the largest model that is built
MaxLayers == 3
\* largest step and start_step a decay function is called on by itself
MaxDecayStep == 4
\* largest decay_steps a decay function is called with by itself
MaxDecaySteps == 3
\* largest number of optimizers a MultipleOptimizer is made over by itself
MaxOptimizers == 3
\* largest number of step() calls made on an AdaFactor by itself
MaxAdaSteps == 3

----------------------------------------------------------------------------
(* Exact rational arithmetic *)

Abs(x) == IF x < 0 THEN -x ELSE x

RECURSIVE GCD(_, _)
GCD(a, b) == IF b = 0 THEN a ELSE GCD(b, a % b)

\* the rational n/d (d # 0) in lowest terms with a positive denominator
Rat(n, d) ==
    LET g == GCD(Abs(n), Abs(d))
        s == IF d < 0 THEN -1 ELSE 1
    IN  <<(s * n) \div g, (s * d) \div g>>

RInt(n) == <<n, 1>>
ROne == <<1, 1>>
RZero == <<0, 1>>
RIsZero(a) == a[1] = 0
RAdd(a, b) == Rat(a[1] * b[2] + b[1] * a[2], a[2] * b[2])
RSub(a, b) == Rat(a[1] * b[2] - b[1] * a[2], a[2] * b[2])
RMul(a, b) == Rat(a[1] * b[1], a[2] * b[2])
\* b is not zero
RDiv(a, b) == Rat(a[1] * b[2], a[2] * b[1])
RLess(a, b) == a[1] * b[2] < b[1] * a[2]
RMin(a, b) == IF RLess(b, a) THEN b ELSE a
RMax(a, b) == IF RLess(a, b) THEN b ELSE a

RECURSIVE RPow(_, _)
RPow(a, e) == IF e = 0 THEN ROne ELSE RMul(a, RPow(a, e - 1))

\* A float result: q itself, or the square root of q when sq holds.
Ok(sq, q) == [ok |-> TRUE, sq |-> sq, q |-> q]
\* A call that raised.
Raised == [ok |-> FALSE, sq |-> FALSE, q |-> RZero]

\* v * r for a result v and a rational r >= 0
Scale(v, r) ==
    IF ~v.ok THEN Raised
    ELSE IF v.sq THEN Ok(TRUE, RMul(v.q, RMul(r, r)))
    ELSE Ok(FALSE, RMul(v.q, r))

----------------------------------------------------------------------------
(* Optional values: None is the empty sequence, a value v is <<v>> *)

None == <<>>
Some(v) == <<v>>
IsNone(x) == x = <<>>

----------------------------------------------------------------------------
(* The learning-rate decay functions *)

\* invsq_decay(step, warmup_steps, warmup_init_factor)
invsq_decay(step, warmup_steps, warmup_init_factor) ==
    IF step < warmup_steps
    THEN IF warmup_init_factor = 0 \/ warmup_steps = 0 THEN Raised
         ELSE LET inv == Rat(1, warmup_init_factor)
              IN  Ok(FALSE, RAdd(inv, RMul(RDiv(RSub(ROne, inv), RInt(warmup_steps)),
                                           RInt(step))))
    ELSE IF step = 0 THEN Raised
         ELSE Ok(TRUE, Rat(warmup_steps, step))

\* stlr_decay(step, warmup_steps, train_steps, ratio)
stlr_decay(step, warmup_steps, train_steps, ratio) ==
    IF train_steps = 0 THEN Raised                 \* cut_frac = warmup_steps/train_steps
    ELSE IF warmup_steps = 0 THEN Raised           \* step/cut
    ELSE LET cut == RInt(warmup_steps)
             cut_frac == Rat(warmup_steps, train_steps)
             den == RMul(cut, RSub(RDiv(ROne, cut_frac), ROne))
         IN  IF RIsZero(den) THEN Raised           \* (step-cut)/(cut*(1/cut_frac-1))
             ELSE IF ratio = 0 THEN Raised
             ELSE LET p == RMin(RDiv(RInt(step), cut),
                                RSub(ROne, RDiv(RSub(RInt(step), cut), den)))
                  IN  Ok(FALSE, RDiv(RAdd(ROne, RMul(p, RInt(ratio - 1))), RInt(ratio)))

\* noam_decay(step, warmup_steps, model_size); the result is a square root
noam_decay(step, warmup_steps, model_size) ==
    IF model_size <= 0 \/ step <= 0 \/ warmup_steps <= 0 THEN Raised
    ELSE Ok(TRUE, RMul(Rat(1, model_size),
                       RMin(Rat(1, step),
                            Rat(step * step, warmup_steps * warmup_steps * warmup_steps))))

\* an exponent that counts the decay periods completed since start_step
ExpDecayExponentSinceStart(step, decay_steps, start_step) ==
    LET m == IF step - start_step > 0 THEN step - start_step ELSE 0
    IN  m \div decay_steps

\* the exponent exponential_decay applies to rate
ExpDecayExponent(step, decay_steps, start_step) ==
    LET m == IF step - start_step + decay_steps > 0
             THEN step - start_step + decay_steps ELSE 0
    IN  m \div decay_steps

\* exponential_decay(step, rate, decay_steps, start_step)
exponential_decay(step, rate, decay_steps, start_step) ==
    IF decay_steps = 0 THEN Raised
    ELSE Ok(FALSE, RPow(rate, ExpDecayExponent(step, decay_steps, start_step)))

\* rsqrt_decay(step, warmup_steps); the result is a square root
rsqrt_decay(step, warmup_steps) ==
    LET m == IF step > warmup_steps THEN step ELSE warmup_steps
    IN  IF m <= 0 THEN Raised ELSE Ok(TRUE, Rat(1, m))

----------------------------------------------------------------------------
(* Names are sequences of characters, so that Python's `sub in name` is    *)
(* computed and not assumed.                                               *)

Contains(sub, s) ==
    \E i \in 1..(Len(s) - Len(sub) + 1) : SubSeq(s, i, i + Len(sub) - 1) = sub

W_embed == <<"e", "m", "b", "e", "d">>
W_embeddings == <<"e", "m", "b", "e", "d", "d", "i", "n", "g", "s">>
W_context == <<"c", "o", "n", "t", "e", "x", "t">>
W_ctx == <<"c", "t", "x">>
W_transformer == <<"t", "r", "a", "n", "s", "f", "o", "r", "m", "e", "r">>
W_rnn == <<"r", "n", "n">>
W_cnn == <<"c", "n", "n">>

Digit(k) == <<"0", "1", "2", "3", "4", "5", "6", "7", "8", "9">>[k + 1]

(* The parameters of a model, by name, in the order named_parameters()     *)
(* yields them.  A model is [has_encoder, dec_layers, copy_attn,           *)
(* share_decoder_embeddings]: what the grouping code reads of its          *)
(* structure.                                                              *)

P_enc_emb == <<"e", "n", "c", ".", "e", "m", "b", "e", "d", "d", "i", "n", "g", "s">>
P_enc_layer == <<"e", "n", "c", ".", "l", "a", "y", "e", "r">>
P_dec_emb == <<"d", "e", "c", ".", "e", "m", "b", "e", "d", "d", "i", "n", "g", "s">>
P_dec_norm == <<"d", "e", "c", ".", "n", "o", "r", "m">>
P_gen_weight == <<"g", "e", "n", ".", "0", ".", "w">>
P_gen_bias == <<"g", "e", "n", ".", "0", ".", "b">>
P_gen_linear_weight == <<"g", "e", "n", ".", "l", "i", "n", "e", "a", "r", ".", "w">>
P_gen_linear_bias == <<"g", "e", "n", ".", "l", "i", "n", "e", "a", "r", ".", "b">>
P_gen_copy == <<"g", "e", "n", ".", "l", "i", "n", "e", "a", "r", "_", "c", "o", "p", "y", ".", "w">>
P_layer_self(k) == <<"d", "e", "c", ".">> \o <<Digit(k)>> \o <<".", "s", "e", "l", "f">>
P_layer_ctx(k) == <<"d", "e", "c", ".">> \o <<Digit(k)>> \o <<".", "c", "o", "n", "t", "e", "x", "t">>

\* model.encoder.named_parameters()
EncoderParams(model) == IF model.has_encoder THEN <<P_enc_emb, P_enc_layer>> ELSE <<>>

\* decoder.transformer_layers[k].named_parameters()
LayerParams(k) == <<P_layer_self(k), P_layer_ctx(k)>>

RECURSIVE LayersParams(_, _)
LayersParams(k, n) == IF k >= n THEN <<>> ELSE LayerParams(k) \o LayersParams(k + 1, n)

\* decoder.embeddings.parameters()
DecEmbParams == <<P_dec_emb>>

\* decoder.named_parameters()
DecoderParams(model) == DecEmbParams \o LayersParams(0, model.dec_layers) \o <<P_dec_norm>>

\* model.generator.parameters(); a tied output weight is the decoder embedding
GeneratorParams(model) ==
    IF model.copy_attn
    THEN (IF model.share_decoder_embeddings THEN <<>> ELSE <<P_gen_linear_weight>>)
         \o <<P_gen_linear_bias, P_gen_copy>>
    ELSE (IF model.share_decoder_embeddings THEN <<>> ELSE <<P_gen_weight>>)
         \o <<P_gen_bias>>

\* model.named_parameters(), every one with requires_grad
ModelParams(model) == EncoderParams(model) \o DecoderParams(model) \o GeneratorParams(model)

----------------------------------------------------------------------------
(* Options.  An opt record carries the options this module reads.          *)

DefaultOpt ==
    [optim |-> "sgd", learning_rate |-> ROne, disc_ft |-> RZero,
     dec_layers |-> 1, dec_lr_factor |-> ROne,
     share_decoder_embeddings |-> FALSE, simple_fusion |-> FALSE,
     copy_attn |-> FALSE, full_gen_bias |-> FALSE,
     decoder_type |-> W_transformer, encdec_share_params |-> FALSE,
     share_embeddings |-> FALSE, full_context_lr |-> FALSE,
     model_dtype |-> "fp32",
     decay_method |-> "none", warmup_steps |-> 2, train_steps |-> 4,
     stlr_ratio |-> 4, rnn_size |-> 4, warmup_init_factor |-> 2,
     start_decay_steps |-> None, learning_rate_decay |-> Rat(1, 2),
     decay_steps |-> 2, max_grad_norm |-> Some(0),
     train_from |-> FALSE, reset_optim |-> "none"]

\* the model that the options describe
ModelOf(opt, has_encoder) ==
    [has_encoder |-> has_encoder, dec_layers |-> opt.dec_layers,
     copy_attn |-> opt.copy_attn,
     share_decoder_embeddings |-> opt.share_decoder_embeddings]

----------------------------------------------------------------------------
(* build_torch_optimizer *)

\* a parameter group: its parameters, its 'factor' (None when the group has
\* no such key) and its 'lr' (None until one is set)
Group(params, factor, lr) == [params |-> params, factor |-> factor, lr |-> lr]

\* one torch optimizer: its class, its param_groups and its state, kept as
\* the number of updates it has applied
Inner(cls, groups) == [cls |-> cls, groups |-> groups, updates |-> 0]

\* what build_torch_optimizer returns: one optimizer, or MultipleOptimizer
\* over several; fp16 says it is wrapped in FP16_Optimizer, and has_update /
\* has_clip whether the wrapper has update_master_grads / clip_master_grads
Optim(cls, inners) ==
    [cls |-> cls, inners |-> inners, fp16 |-> FALSE,
     has_update |-> FALSE, has_clip |-> FALSE]

NoOptim == Optim("none", <<>>)

Built(optimizer) == [ok |-> TRUE, err |-> "", optimizer |-> optimizer]
BuildError(err) == [ok |-> FALSE, err |-> err, optimizer |-> NoOptim]

IsAdam(opt) == opt.optim = "adam" \/ opt.optim = "fusedadam"
DiscFt(opt) == RLess(RZero, opt.disc_ft)

\* checks that let any decoder type through
ConfigRejectedButDecoderType(opt) ==
    \/ DiscFt(opt) /\ ~IsAdam(opt)
    \/ DiscFt(opt) /\ opt.share_decoder_embeddings /\ opt.simple_fusion
    \/ DiscFt(opt) /\ opt.share_decoder_embeddings /\ opt.copy_attn /\ opt.full_gen_bias

\* the checks that open build_torch_optimizer: TRUE when one of them raises
ConfigRejected(opt) ==
    \/ DiscFt(opt) /\ ~IsAdam(opt)
    \/ DiscFt(opt) /\ opt.share_decoder_embeddings /\ opt.simple_fusion
    \/ DiscFt(opt) /\ opt.share_decoder_embeddings /\ opt.copy_attn /\ opt.full_gen_bias
    \/ DiscFt(opt) /\ ~Contains(W_transformer, opt.decoder_type)

IsCtxName(name) == Contains(W_context, name) \/ Contains(W_ctx, name)
NotCtxName(name) == ~Contains(W_context, name) /\ ~Contains(W_ctx, name)
NotEmbeddingsName(name) == ~Contains(W_embeddings, name)
IsEmbedName(name) == Contains(W_embed, name)
NotEmbedName(name) == ~Contains(W_embed, name)

\* enc_params
EncParams(model, opt) ==
    IF opt.encdec_share_params THEN <<>>
    ELSE IF model.has_encoder
         THEN IF opt.share_embeddings
              THEN SelectSeq(EncoderParams(model), NotEmbeddingsName)
              ELSE EncoderParams(model)
         ELSE <<>>

\* gen_params
GenParams(model, opt) ==
    IF opt.share_decoder_embeddings
    THEN IF opt.full_gen_bias THEN <<P_gen_bias>>
         ELSE IF opt.copy_attn THEN <<P_gen_copy>>
         ELSE <<>>
    ELSE GeneratorParams(model)

\* params_end
ParamsEnd(model, opt) ==
    GenParams(model, opt) \o <<P_dec_norm>>
    \o (IF opt.full_context_lr THEN SelectSeq(DecoderParams(model), IsCtxName) ELSE <<>>)

\* layer_params of layer layer_num
LayerGroupParams(opt, layer_num) ==
    IF opt.full_context_lr THEN SelectSeq(LayerParams(layer_num), NotCtxName)
    ELSE LayerParams(layer_num)

\* emb_params
EmbParams(model, opt) ==
    DecEmbParams
    \o (IF opt.share_decoder_embeddings /\ ~opt.full_gen_bias
        THEN IF opt.copy_attn THEN <<P_gen_linear_bias>> ELSE <<P_gen_bias>>
        ELSE <<>>)

\* a factor that grows from layer to layer
NextFactorTimes(factor, opt) == RMul(factor, opt.disc_ft)

\* factor /= opt.disc_ft
NextFactor(factor, opt) == RDiv(factor, opt.disc_ft)

\* the groups of the layer loop, from layer_num down to layer 0; factor is the
\* factor of the group appended before
RECURSIVE LayerGroups(_, _, _)
LayerGroups(opt, layer_num, factor) ==
    IF layer_num < 0 THEN <<>>
    ELSE <<Group(LayerGroupParams(opt, layer_num), Some(NextFactor(factor, opt)), None)>>
         \o LayerGroups(opt, layer_num - 1, NextFactor(factor, opt))

\* factor after the layer loop has run n times
RECURSIVE FactorAfter(_, _, _)
FactorAfter(opt, n, factor) ==
    IF n = 0 THEN factor ELSE FactorAfter(opt, n - 1, NextFactor(factor, opt))

\* param_groups of the discriminative fine-tuning branch
DiscFtGroups(model, opt) ==
    LET enc_params == EncParams(model, opt)
        factor0 == RDiv(ROne, opt.dec_lr_factor)
    IN  (IF enc_params # <<>> THEN <<Group(enc_params, Some(ROne), None)>> ELSE <<>>)
        \o <<Group(ParamsEnd(model, opt), Some(factor0), None)>>
        \o LayerGroups(opt, opt.dec_layers - 1, factor0)
        \o <<Group(EmbParams(model, opt),
                   Some(NextFactor(FactorAfter(opt, opt.dec_layers, factor0), opt)), None)>>

\* torch gives every group the optimizer's default lr
WithLr(groups, lr) == [i \in 1..Len(groups) |-> [groups[i] EXCEPT !.lr = lr]]

\* the FP16_Optimizer wrapper; apex says which methods the wrapper has
WrapFp16(optimizer, opt, apex) ==
    IF opt.model_dtype = "fp16"
    THEN [optimizer EXCEPT !.fp16 = TRUE, !.has_update = apex.update,
                           !.has_clip = apex.clip]
    ELSE optimizer

build_torch_optimizer(model, opt, apex) ==
    IF ConfigRejected(opt) THEN BuildError("NotImplementedError")
    ELSE
    LET params == ModelParams(model)
        lr == Some(Ok(FALSE, opt.learning_rate))
        one(cls, l) == Built(WrapFp16(Optim(cls, <<Inner(cls, <<Group(params, None, l)>>)>>),
                                      opt, apex))
    IN  IF opt.optim = "sgd" THEN one("SGD", lr)
        ELSE IF opt.optim = "adagrad" THEN one("Adagrad", lr)
        ELSE IF opt.optim = "adadelta" THEN one("Adadelta", lr)
        ELSE IF opt.optim = "adafactor" THEN one("AdaFactor", None)
        ELSE IF IsAdam(opt)
        THEN LET cls == IF opt.optim = "adam" THEN "Adam" ELSE "FusedAdam"
             IN  IF DiscFt(opt)
                 THEN IF RIsZero(opt.dec_lr_factor) THEN BuildError("ZeroDivisionError")
                      ELSE IF opt.dec_layers > model.dec_layers THEN BuildError("IndexError")
                      ELSE Built(WrapFp16(
                               Optim(cls, <<Inner(cls, WithLr(DiscFtGroups(model, opt), lr))>>),
                               opt, apex))
                 ELSE one(cls, lr)
        ELSE IF opt.optim = "sparseadam"
        THEN Built(WrapFp16(
                 Optim("MultipleOptimizer",
                       <<Inner("Adam",
                               <<Group(SelectSeq(params, NotEmbedName), None, lr)>>),
                         Inner("SparseAdam",
                               <<Group(SelectSeq(params, IsEmbedName), None, lr)>>)>>),
                 opt, apex))
        ELSE BuildError("ValueError")

----------------------------------------------------------------------------
(* make_learning_rate_decay_fn: the partial application it returns is the  *)
(* function's kind with the arguments it binds (0 for the unused ones)     *)

DecayFn(kind, warmup_steps, train_steps, ratio, model_size, warmup_init_factor, rate, decay_steps, start_step) ==
    [kind |-> kind, warmup_steps |-> warmup_steps, train_steps |-> train_steps,
     ratio |-> ratio, model_size |-> model_size,
     warmup_init_factor |-> warmup_init_factor, rate |-> rate,
     decay_steps |-> decay_steps, start_step |-> start_step]

\* the function returns None
NoDecayFn == DecayFn("none", 0, 0, 0, 0, 0, RZero, 0, 0)

\* the guard on the 'stlr' branch
StlrRejected(opt) == opt.warmup_steps > opt.train_steps

make_learning_rate_decay_fn(opt) ==
    IF opt.decay_method = "noam"
    THEN [ok |-> TRUE,
          fn |-> DecayFn("noam", opt.warmup_steps, 0, 0, opt.rnn_size, 0, RZero, 0, 0)]
    ELSE IF opt.decay_method = "rsqrt"
    THEN [ok |-> TRUE, fn |-> DecayFn("rsqrt", opt.warmup_steps, 0, 0, 0, 0, RZero, 0, 0)]
    ELSE IF opt.decay_method = "stlr"
    THEN IF StlrRejected(opt) THEN [ok |-> FALSE, fn |-> NoDecayFn]
         ELSE [ok |-> TRUE,
               fn |-> DecayFn("stlr", opt.warmup_steps, opt.train_steps, opt.stlr_ratio,
                              0, 0, RZero, 0, 0)]
    ELSE IF opt.decay_method = "invsq"
    THEN [ok |-> TRUE,
          fn |-> DecayFn("invsq", opt.warmup_steps, 0, 0, 0, opt.warmup_init_factor,
                         RZero, 0, 0)]
    ELSE IF ~IsNone(opt.start_decay_steps)
    THEN [ok |-> TRUE,
          fn |-> DecayFn("exponential", 0, 0, 0, 0, 0, opt.learning_rate_decay,
                         opt.decay_steps, opt.start_decay_steps[1])]
    ELSE [ok |-> TRUE, fn |-> NoDecayFn]

\* self._learning_rate_decay_fn(step)
CallDecayFn(fn, step) ==
    IF fn.kind = "noam" THEN noam_decay(step, fn.warmup_steps, fn.model_size)
    ELSE IF fn.kind = "rsqrt" THEN rsqrt_decay(step, fn.warmup_steps)
    ELSE IF fn.kind = "stlr"
    THEN stlr_decay(step, fn.warmup_steps, fn.train_steps, fn.ratio)
    ELSE IF fn.kind = "invsq"
    THEN invsq_decay(step, fn.warmup_steps, fn.warmup_init_factor)
    ELSE exponential_decay(step, fn.rate, fn.decay_steps, fn.start_step)

----------------------------------------------------------------------------
(* MultipleOptimizer and the torch optimizers it stands beside *)

RECURSIVE Concat(_)
Concat(ss) == IF ss = <<>> THEN <<>> ELSE Head(ss) \o Concat(Tail(ss))

\* optimizer.param_groups: for MultipleOptimizer the inner optimizers' groups
\* one after the other
param_groups(optimizer) ==
    Concat([i \in 1..Len(optimizer.inners) |-> optimizer.inners[i].groups])

\* the state_dict of one torch optimizer: its state and the sizes of its groups
InnerStateDict(inner) ==
    [updates |-> inner.updates,
     sizes |-> [g \in 1..Len(inner.groups) |-> Len(inner.groups[g].params)]]

\* optimizer.state_dict(): MultipleOptimizer returns the list of the inner
\* state_dicts (multi), a torch optimizer its own, FP16_Optimizer wraps it
OptimStateDict(optimizer) ==
    [multi |-> optimizer.cls = "MultipleOptimizer", fp16 |-> optimizer.fp16,
     states |-> [i \in 1..Len(optimizer.inners) |-> InnerStateDict(optimizer.inners[i])]]

\* torch's load_state_dict refuses a state_dict whose groups differ in number
\* or size from the optimizer's
InnerLoadRaises(inner, sd) == sd.sizes # InnerStateDict(inner).sizes

InnerLoad(inner, sd) == [inner EXCEPT !.updates = sd.updates]

\* MultipleOptimizer.load_state_dict: the entries are loaded in order, and an
\* entry that raises leaves the ones before it loaded
RECURSIVE MultiLoad(_, _, _)
MultiLoad(inners, sds, i) ==
    IF i > Len(sds) THEN [ok |-> TRUE, inners |-> inners]
    ELSE IF InnerLoadRaises(inners[i], sds[i]) THEN [ok |-> FALSE, inners |-> inners]
    ELSE MultiLoad([inners EXCEPT ![i] = InnerLoad(inners[i], sds[i])], sds, i + 1)

\* a load that takes the entries it is given, however many there are
MultipleLoadUnchecked(inners, state_dicts) ==
    IF Len(state_dicts) <= Len(inners) THEN MultiLoad(inners, state_dicts, 1)
    ELSE [ok |-> FALSE,
          inners |-> MultiLoad(inners, SubSeq(state_dicts, 1, Len(inners)), 1).inners]

\* MultipleOptimizer.load_state_dict(state_dicts): [ok, inners]; the assert
\* on the lengths comes before any entry is loaded
MultipleLoad(inners, state_dicts) ==
    IF Len(state_dicts) # Len(inners) THEN [ok |-> FALSE, inners |-> inners]
    ELSE MultiLoad(inners, state_dicts, 1)

\* self._optimizer.load_state_dict(sd): [ok, optimizer]
OptimLoad(optimizer, sd) ==
    IF sd.fp16 # optimizer.fp16 THEN [ok |-> FALSE, optimizer |-> optimizer]
    ELSE IF optimizer.cls = "MultipleOptimizer"
    THEN IF ~sd.multi
         THEN [ok |-> FALSE, optimizer |-> optimizer]
         ELSE LET r == MultipleLoad(optimizer.inners, sd.states)
              IN  [ok |-> r.ok, optimizer |-> [optimizer EXCEPT !.inners = r.inners]]
    ELSE IF sd.multi \/ InnerLoadRaises(optimizer.inners[1], sd.states[1])
         THEN [ok |-> FALSE, optimizer |-> optimizer]
         ELSE [ok |-> TRUE,
               optimizer |-> [optimizer EXCEPT
                                 !.inners[1] = InnerLoad(optimizer.inners[1], sd.states[1])]]

\* a gradient kind makes an optimizer's step raise: AdaFactor on a sparse one
InnerStepRaises(inner, grad) == inner.cls = "AdaFactor" /\ grad = "sparse"

\* optimizer.step(): every inner optimizer in order; [ok, optimizer]
RECURSIVE InnersStep(_, _, _)
InnersStep(inners, grad, i) ==
    IF i > Len(inners) THEN [ok |-> TRUE, inners |-> inners]
    ELSE IF InnerStepRaises(inners[i], grad) THEN [ok |-> FALSE, inners |-> inners]
    ELSE InnersStep([inners EXCEPT ![i].updates = @ + 1], grad, i + 1)

OptimStep(optimizer, grad) ==
    LET r == InnersStep(optimizer.inners, grad, 1)
    IN  [ok |-> r.ok, optimizer |-> [optimizer EXCEPT !.inners = r.inners]]

----------------------------------------------------------------------------
(* The training controller, class Optimizer *)

NoCtl == [tag |-> "none"]

\* max_grad_norm or 0
OrZero(max_grad_norm) ==
    IF IsNone(max_grad_norm) THEN 0 ELSE max_grad_norm[1]

\* Optimizer.__init__
NewOptimizer(optimizer, learning_rate, learning_rate_decay_fn, max_grad_norm) ==
    [tag |-> "ctl", optimizer |-> optimizer, learning_rate |-> learning_rate,
     decay_fn |-> learning_rate_decay_fn, max_grad_norm |-> OrZero(max_grad_norm),
     training_step |-> 1, decay_step |-> 1]

\* Optimizer.learning_rate
learning_rate(c) ==
    IF c.decay_fn.kind = "none" THEN Ok(FALSE, c.learning_rate)
    ELSE Scale(CallDecayFn(c.decay_fn, c.decay_step), c.learning_rate)

\* a state dict: every key is None when the dict lacks it
StateDict(training_step, decay_step, optimizer) ==
    [training_step |-> training_step, decay_step |-> decay_step,
     optimizer |-> optimizer]

\* a state_dict that leaves decay_step out
state_dict_without_decay_step(c) ==
    StateDict(Some(c.training_step), None, Some(OptimStateDict(c.optimizer)))

\* Optimizer.state_dict
state_dict(c) ==
    StateDict(Some(c.training_step), Some(c.decay_step),
              Some(OptimStateDict(c.optimizer)))

\* a load that resets a missing decay_step to the loaded training_step
LoadDecayStepDefaulted(c, sd) ==
    IF ~IsNone(sd.decay_step) THEN [c EXCEPT !.decay_step = sd.decay_step[1]]
    ELSE [c EXCEPT !.decay_step = c.training_step]

\* if 'decay_step' in state_dict: self._decay_step = state_dict['decay_step']
LoadDecayStep(c, sd) ==
    IF ~IsNone(sd.decay_step) THEN [c EXCEPT !.decay_step = sd.decay_step[1]] ELSE c

\* Optimizer.load_state_dict: [ok, ctl]; a raise leaves what was assigned
\* before it
load_state_dict(c, sd) ==
    IF IsNone(sd.training_step) THEN [ok |-> FALSE, ctl |-> c]
    ELSE LET c1 == [c EXCEPT !.training_step = sd.training_step[1]]
             c2 == LoadDecayStep(c1, sd)
         IN  IF ~IsNone(sd.optimizer)
             THEN LET r == OptimLoad(c2.optimizer, sd.optimizer[1])
                  IN  [ok |-> r.ok, ctl |-> [c2 EXCEPT !.optimizer = r.optimizer]]
             ELSE [ok |-> TRUE, ctl |-> c2]

\* one call that step() makes on a collaborator
Call(name, params, norm, groups) ==
    [call |-> name, params |-> params, norm |-> norm, groups |-> groups]

\* the wrapper calls that open step()
MasterGradCalls(c) ==
    IF c.optimizer.fp16
    THEN (IF c.optimizer.has_update THEN <<Call("update_master_grads", <<>>, 0, <<>>)>>
          ELSE <<>>)
         \o (IF c.optimizer.has_clip /\ c.max_grad_norm > 0
             THEN <<Call("clip_master_grads", <<>>, c.max_grad_norm, <<>>)>>
             ELSE <<>>)
    ELSE <<>>

\* the lr that step() gives a group
GroupLr(group, lr) ==
    IF ~IsNone(group.factor) THEN Scale(lr, group.factor[1]) ELSE lr

\* a per-group clip that forgets the wrapper
ClipsGroupsAlways(c) == c.max_grad_norm > 0

\* the condition of the per-group clip_grad_norm_
ClipsGroups(c) == ~c.optimizer.fp16 /\ c.max_grad_norm > 0

\* the loop over param_groups: the groups with their lr set
SetLr(optimizer, lr) ==
    [optimizer EXCEPT !.inners =
        [i \in 1..Len(optimizer.inners) |->
            [optimizer.inners[i] EXCEPT !.groups =
                [g \in 1..Len(optimizer.inners[i].groups) |->
                    [optimizer.inners[i].groups[g] EXCEPT
                        !.lr = Some(GroupLr(optimizer.inners[i].groups[g], lr))]]]]]

\* the loop over param_groups: its clip_grad_norm_ calls
ClipCalls(c) ==
    LET groups == param_groups(c.optimizer)
    IN  IF ClipsGroups(c)
        THEN [g \in 1..Len(groups) |->
                 Call("clip_grad_norm_", groups[g].params, c.max_grad_norm, <<>>)]
        ELSE <<>>

\* an increment that forgets decay_step
IncrementTrainingStepOnly(c) == [c EXCEPT !.training_step = @ + 1]

\* self._decay_step += 1; self._training_step += 1
IncrementSteps(c) ==
    [c EXCEPT !.decay_step = @ + 1, !.training_step = @ + 1]

\* a learning rate taken for the step that follows
StepLearningRateAhead(c) == learning_rate([c EXCEPT !.decay_step = @ + 1])

\* the learning rate step() computes on entry
StepLearningRate(c) == learning_rate(c)

\* Optimizer.step: [ok, ctl, calls]
step(c, grad) ==
    LET lr == StepLearningRate(c)
    IN  IF ~lr.ok THEN [ok |-> FALSE, ctl |-> c, calls |-> <<>>]
        ELSE LET o == SetLr(c.optimizer, lr)
                 r == OptimStep(o, grad)
                 calls == MasterGradCalls(c) \o ClipCalls(c)
                          \o <<Call("optimizer.step", <<>>, 0, param_groups(o))>>
                 c1 == [c EXCEPT !.optimizer = r.optimizer]
             IN  IF r.ok THEN [ok |-> TRUE, ctl |-> IncrementSteps(c1), calls |-> calls]
                 ELSE [ok |-> FALSE, ctl |-> c1, calls |-> calls]

----------------------------------------------------------------------------
(* Checkpoints and Optimizer.from_opt *)

NoCkpt == [tag |-> "none"]

\* checkpoint = {'optim': a state dict, 'opt': the saved options}
Ckpt(optim, opt) == [tag |-> "ckpt", legacy |-> FALSE, optim |-> optim, opt |-> opt]

\* an old checkpoint: 'optim' is a pickled Optimizer with _step and optimizer
LegacyCkpt(old_step, optimizer_sd, opt) ==
    [tag |-> "ckpt", legacy |-> TRUE,
     optim |-> [old_step |-> old_step, optimizer |-> optimizer_sd], opt |-> opt]

\* ckpt_state_dict
CkptStateDict(checkpoint) ==
    IF checkpoint.legacy
    THEN StateDict(Some(checkpoint.optim.old_step + 1),
                   Some(checkpoint.optim.old_step + 1),
                   Some(checkpoint.optim.optimizer))
    ELSE checkpoint.optim

UsesCheckpoint(opt, checkpoint) == opt.train_from /\ checkpoint.tag = "ckpt"

\* a resume that takes the checkpoint's options whenever it keeps its state
OptimOptWithState(opt, checkpoint) ==
    IF UsesCheckpoint(opt, checkpoint)
       /\ opt.reset_optim \in {"none", "states", "keep_states"}
    THEN checkpoint.opt ELSE opt

\* optim_opt
OptimOpt(opt, checkpoint) ==
    IF UsesCheckpoint(opt, checkpoint) /\ opt.reset_optim \in {"none", "states"}
    THEN checkpoint.opt ELSE opt

\* del optim_state_dict['optimizer']
DelOptimizer(sd) == [sd EXCEPT !.optimizer = None]

\* optim_state_dict: [ok, sd] with sd None or <<dict>>
OptimStateDictOf(opt, checkpoint) ==
    IF ~UsesCheckpoint(opt, checkpoint) THEN [ok |-> TRUE, sd |-> None]
    ELSE IF opt.reset_optim = "none" \/ opt.reset_optim = "keep_states"
    THEN [ok |-> TRUE, sd |-> Some(CkptStateDict(checkpoint))]
    ELSE IF opt.reset_optim = "states"
    THEN IF IsNone(CkptStateDict(checkpoint).optimizer)
         THEN [ok |-> FALSE, sd |-> None]
         ELSE [ok |-> TRUE, sd |-> Some(DelOptimizer(CkptStateDict(checkpoint)))]
    ELSE [ok |-> TRUE, sd |-> None]

\* the checkpoint as from_opt leaves it: ckpt_state_dict is the caller's own
\* dict unless it was rebuilt from an old checkpoint
CheckpointAfter(opt, checkpoint) ==
    IF UsesCheckpoint(opt, checkpoint) /\ opt.reset_optim = "states"
       /\ ~checkpoint.legacy /\ ~IsNone(checkpoint.optim.optimizer)
    THEN [checkpoint EXCEPT !.optim = DelOptimizer(checkpoint.optim)]
    ELSE checkpoint

\* `if optim_state_dict:` a dict is true when it has a key
Truthy(sd) ==
    /\ ~IsNone(sd)
    /\ ~(IsNone(sd[1].training_step) /\ IsNone(sd[1].decay_step)
         /\ IsNone(sd[1].optimizer))

\* Optimizer.from_opt: [ok, ctl, checkpoint]
from_opt(model, opt, checkpoint, apex) ==
    LET osd == OptimStateDictOf(opt, checkpoint)
        after == CheckpointAfter(opt, checkpoint)
        optim_opt == OptimOpt(opt, checkpoint)
        failed == [ok |-> FALSE, ctl |-> NoCtl, checkpoint |-> after]
    IN  IF ~osd.ok THEN failed
        ELSE LET built == build_torch_optimizer(model, optim_opt, apex)
                 fn == make_learning_rate_decay_fn(optim_opt)
             IN  IF ~built.ok \/ ~fn.ok THEN failed
                 ELSE LET optimizer == NewOptimizer(built.optimizer,
                                                    optim_opt.learning_rate, fn.fn,
                                                    optim_opt.max_grad_norm)
                      IN  IF Truthy(osd.sd)
                          THEN LET r == load_state_dict(optimizer, osd.sd[1])
                               IN  IF r.ok
                                   THEN [ok |-> TRUE, ctl |-> r.ctl, checkpoint |-> after]
                                   ELSE failed
                          ELSE [ok |-> TRUE, ctl |-> optimizer, checkpoint |-> after]

----------------------------------------------------------------------------
(* The state machine.  ctl is the controller the trainer holds (NoCtl      *)
(* before from_opt has returned one), ckpt the checkpoint object it holds, *)
(* twin a second controller loaded from ctl's state_dict, trace the calls  *)
(* the last step() made on its collaborators, and last the operation that *)
(* led to this state with its arguments and whether it returned normally.  *)
(* hist says whether load_state_dict was called on ctl since it was built, *)
(* counts the step() calls that returned normally on it before that, and   *)
(* keeps the options and the wrapper it was built with.                    *)

\* the operation that led to a state; fn_in and fn_out are the arguments and
\* the result of a function that was called on its own
Last(op, ok, opt, sd) ==
    [op |-> op, ok |-> ok, opt |-> opt, sd |-> sd, fn_in |-> <<>>, fn_out |-> <<>>]

NoDict == StateDict(None, None, None)

NoApex == [update |-> FALSE, clip |-> FALSE]

\* the history of a controller just built from opt
BuiltHist(opt, apex, loaded) ==
    [steps |-> 0, loaded |-> loaded, opt |-> opt, apex |-> apex]

NoHist == BuiltHist(DefaultOpt, NoApex, FALSE)

Apexes == {[update |-> u, clip |-> c] : u \in BOOLEAN, c \in BOOLEAN}
ApexFor(opt) == IF opt.model_dtype = "fp16" THEN Apexes ELSE {NoApex}

\* no AdaFactor has been constructed by itself
NoAda == [tag |-> "none"]

Init ==
    /\ ctl = NoCtl
    /\ twin = NoCtl
    /\ ckpt = NoCkpt
    /\ trace = <<>>
    /\ last = Last("init", TRUE, DefaultOpt, NoDict)
    /\ hist = NoHist
    /\ ada = NoAda

\* the decay settings the controller is run with
DecayOpts ==
    {[DefaultOpt EXCEPT !.decay_method = "noam"],
     [DefaultOpt EXCEPT !.decay_method = "rsqrt"],
     [DefaultOpt EXCEPT !.decay_method = "invsq"],
     [DefaultOpt EXCEPT !.decay_method = "stlr"],
     [DefaultOpt EXCEPT !.decay_method = "stlr", !.warmup_steps = 2, !.train_steps = 2],
     [DefaultOpt EXCEPT !.decay_method = "stlr", !.warmup_steps = 3, !.train_steps = 2],
     [DefaultOpt EXCEPT !.start_decay_steps = Some(2), !.decay_steps = 1],
     DefaultOpt}

\* the optimizers and clipping settings the controller is run with
OptimOpts ==
    {[DefaultOpt EXCEPT !.max_grad_norm = m, !.model_dtype = t] :
        m \in {None, Some(0), Some(5)}, t \in {"fp32", "fp16"}}
    \cup
    {[DefaultOpt EXCEPT !.optim = "adam", !.disc_ft = RInt(2), !.dec_lr_factor = RInt(2),
                        !.max_grad_norm = Some(5), !.model_dtype = t,
                        !.start_decay_steps = Some(2), !.decay_steps = 1] :
        t \in {"fp32", "fp16"}}
    \cup {[DefaultOpt EXCEPT !.optim = "adafactor"],
          [DefaultOpt EXCEPT !.optim = "sparseadam", !.max_grad_norm = Some(5)],
          [DefaultOpt EXCEPT !.optim = "lbfgs"],
          [DefaultOpt EXCEPT !.disc_ft = RInt(2)]}

CtlOpts == DecayOpts \cup OptimOpts

\* Optimizer.from_opt(model, opt) without a checkpoint, once
Construct ==
    /\ last.op = "init"
    /\ \E opt \in CtlOpts, apex \in Apexes :
          /\ apex \in ApexFor(opt)
          /\ LET r == from_opt(ModelOf(opt, TRUE), opt, NoCkpt, apex)
             IN  /\ ctl' = r.ctl
                 /\ last' = Last("from_opt", r.ok, opt, NoDict)
                 /\ hist' = BuiltHist(opt, apex, FALSE)
    /\ trace' = <<>>
    /\ UNCHANGED <<twin, ckpt>>
    /\ UNCHANGED ada

Grads == {"dense", "sparse"}

\* step() is taken while the counters it increments are below the cap
Capped(c) ==
    /\ c.training_step < MaxStep
    /\ c.decay_step < MaxStep
    /\ \A i \in 1..Len(c.optimizer.inners) : c.optimizer.inners[i].updates < MaxStep - 1

\* ctl.step() on gradients of one kind
Step ==
    /\ ctl.tag = "ctl"
    /\ twin.tag = "none"
    /\ Capped(ctl)
    /\ \E grad \in Grads :
          LET r == step(ctl, grad)
          IN  /\ ctl' = r.ctl
              /\ trace' = r.calls
              /\ last' = Last("step", r.ok, DefaultOpt, NoDict)
              /\ hist' = [hist EXCEPT !.steps = IF r.ok /\ ~hist.loaded THEN @ + 1 ELSE @]
    /\ UNCHANGED <<twin, ckpt>>
    /\ UNCHANGED ada

\* the dicts load_state_dict is given: any of the keys may be missing
LoadInputs ==
    {StateDict(t, d, o) :
        t \in {None, Some(1), Some(MaxStep)},
        d \in {None, Some(1), Some(MaxStep)},
        o \in {None,
               Some([OptimStateDict(ctl.optimizer) EXCEPT !.states[1].updates = 0]),
               Some([OptimStateDict(ctl.optimizer) EXCEPT !.multi = ~@])}}

\* ctl.load_state_dict(sd)
LoadStateDict ==
    /\ ctl.tag = "ctl"
    /\ twin.tag = "none"
    /\ \E sd \in LoadInputs :
          LET r == load_state_dict(ctl, sd)
          IN  /\ ctl' = r.ctl
              /\ last' = Last("load_state_dict", r.ok, DefaultOpt, sd)
    /\ trace' = <<>>
    /\ hist' = [hist EXCEPT !.loaded = TRUE]
    /\ UNCHANGED <<twin, ckpt>>
    /\ UNCHANGED ada

\* ctl.zero_grad(): delegates to the optimizer, whose state it leaves alone
ZeroGrad ==
    /\ ctl.tag = "ctl"
    /\ twin.tag = "none"
    /\ last' = Last("zero_grad", TRUE, DefaultOpt, NoDict)
    /\ trace' = <<>>
    /\ UNCHANGED <<ctl, twin, ckpt, hist>>
    /\ UNCHANGED ada

\* ctl.backward(loss): the wrapper's backward or loss.backward()
Backward ==
    /\ ctl.tag = "ctl"
    /\ twin.tag = "none"
    /\ last' = Last("backward", TRUE, DefaultOpt, NoDict)
    /\ trace' = <<>>
    /\ UNCHANGED <<ctl, twin, ckpt, hist>>
    /\ UNCHANGED ada

Next == Construct \/ Step \/ LoadStateDict \/ ZeroGrad \/ Backward

Spec == Init /\ [][Next]_vars

----------------------------------------------------------------------------
(* Resuming from checkpoints: the trainer saves checkpoints of its         *)
(* controller and builds its next controller from the one it holds.        *)

\* the options of the runs that save and resume
ResumeOpts ==
    {DefaultOpt,
     [DefaultOpt EXCEPT !.learning_rate = Rat(1, 2), !.start_decay_steps = Some(2),
                        !.decay_steps = 1, !.max_grad_norm = Some(5)],
     [DefaultOpt EXCEPT !.optim = "sparseadam", !.decay_method = "rsqrt"]}

Policies == {"none", "all", "states", "keep_states"}

ResumeModel == ModelOf(DefaultOpt, TRUE)

\* Optimizer.from_opt(model, opt, checkpoint) with the checkpoint the trainer
\* holds, if it holds one
Resume ==
    /\ \E base \in ResumeOpts, train_from \in BOOLEAN, reset_optim \in Policies :
          LET opt == [base EXCEPT !.train_from = train_from,
                                  !.reset_optim = reset_optim]
              r == from_opt(ResumeModel, opt, ckpt, NoApex)
          IN  /\ ctl' = r.ctl
              /\ ckpt' = r.checkpoint
              /\ last' = Last("from_opt", r.ok, opt, NoDict)
              /\ hist' = BuiltHist(OptimOpt(opt, ckpt), NoApex,
                                    r.ok /\ Truthy(OptimStateDictOf(opt, ckpt).sd))
    /\ trace' = <<>>
    /\ UNCHANGED twin
    /\ UNCHANGED ada

\* the saver writes a checkpoint: ctl.state_dict() and the options of the run
Save ==
    /\ ctl.tag = "ctl"
    /\ \E opt \in ResumeOpts : ckpt' = Ckpt(state_dict(ctl), opt)
    /\ last' = Last("state_dict", TRUE, DefaultOpt, NoDict)
    /\ trace' = <<>>
    /\ UNCHANGED <<ctl, twin, hist>>
    /\ UNCHANGED ada

\* a checkpoint of the old format, which pickled the controller itself: its
\* _step is one less than the step it resumes at
SaveLegacy ==
    /\ ctl.tag = "ctl"
    /\ \E opt \in ResumeOpts :
          ckpt' = LegacyCkpt(ctl.training_step - 1, OptimStateDict(ctl.optimizer), opt)
    /\ last' = Last("pickle", TRUE, DefaultOpt, NoDict)
    /\ trace' = <<>>
    /\ UNCHANGED <<ctl, twin, hist>>
    /\ UNCHANGED ada

NextResume == Resume \/ Step \/ Save \/ SaveLegacy

SpecResume == Init /\ [][NextResume]_vars

----------------------------------------------------------------------------
(* Claims about the controller, checked under Spec *)

IsStep == last.op = "step"

\* C1: a freshly constructed controller has training_step = decay_step = 1;
\* a step() that returns normally adds exactly 1 to both counters; a step()
\* that raises changes neither; zero_grad and backward change neither, so
\* only load_state_dict can make the counters differ or decrease.
C1_Transition ==
    /\ (last'.op = "from_opt" /\ last'.ok)
          => ctl'.training_step = 1 /\ ctl'.decay_step = 1
    /\ (last'.op = "step" /\ last'.ok)
          => /\ ctl'.training_step = ctl.training_step + 1
             /\ ctl'.decay_step = ctl.decay_step + 1
    /\ (last'.op = "step" /\ ~last'.ok)
          => /\ ctl'.training_step = ctl.training_step
             /\ ctl'.decay_step = ctl.decay_step
    /\ (last'.op \in {"zero_grad", "backward"})
          => /\ ctl'.training_step = ctl.training_step
             /\ ctl'.decay_step = ctl.decay_step

C1_CountersLockstep == [][C1_Transition]_vars

\* C1 witness: two step() calls have returned normally on a fresh controller
C1_Witness ==
    /\ IsStep /\ last.ok /\ ~hist.loaded
    /\ ctl.training_step = 3 /\ ctl.decay_step = 3

\* the learning rate of a controller whose decay_step is d
RateAt(c, d) ==
    IF c.decay_fn.kind = "none" THEN Ok(FALSE, c.learning_rate)
    ELSE Scale(CallDecayFn(c.decay_fn, d), c.learning_rate)

\* the groups as the optimizer's step sees them, whenever step() reached it
StepGroups(calls) == calls[Len(calls)].groups

\* C2: when step() invokes the optimizer's step, every group has
\* lr = factor * L if it carries a factor and lr = L otherwise, where L is the
\* base rate without a decay function and decay_fn(d) * base rate with one,
\* d being decay_step on entry to step(); on a fresh controller the k-th
\* step() that returns uses decay_fn(k).
C2_Transition ==
    (last'.op = "step" /\ trace' # <<>>)
       => LET L == RateAt(ctl, ctl.decay_step)
              groups == StepGroups(trace')
          IN  /\ L.ok
              /\ trace'[Len(trace')].call = "optimizer.step"
              /\ Len(groups) = Len(param_groups(ctl.optimizer))
              /\ \A g \in 1..Len(groups) :
                    groups[g].lr = Some(IF IsNone(groups[g].factor) THEN L
                                        ELSE Scale(L, groups[g].factor[1]))
              /\ ~hist.loaded => ctl.decay_step = hist.steps + 1

C2_LrAtOptimizerStep == [][C2_Transition]_vars

\* C2 witness: the second step() of a controller with a decay function and
\* factored groups has reached the optimizer's step
C2_Witness ==
    /\ IsStep /\ last.ok /\ ~hist.loaded /\ hist.steps = 2
    /\ ctl.decay_fn.kind = "exponential"
    /\ \E g \in 1..Len(StepGroups(trace)) :
          /\ ~IsNone(StepGroups(trace)[g].factor)
          /\ StepGroups(trace)[g].lr = Some(Ok(FALSE, Rat(1, 8)))

CallsNamed(calls, name) == SelectSeq(calls, LAMBDA ev : ev.call = name)

\* the position of the first call of a name in calls, 0 when there is none
FirstCall(calls, name) ==
    IF \E i \in 1..Len(calls) : calls[i].call = name
    THEN CHOOSE i \in 1..Len(calls) :
            /\ calls[i].call = name
            /\ \A j \in 1..(i - 1) : calls[j].call # name
    ELSE 0

C5_Transition ==
    (last'.op = "load_state_dict" /\ ~IsNone(last'.sd.training_step))
       => LET sd == last'.sd
          IN  /\ ctl'.training_step = sd.training_step[1]
              /\ IsNone(sd.decay_step) => ctl'.decay_step = ctl.decay_step
              /\ ~IsNone(sd.decay_step) => ctl'.decay_step = sd.decay_step[1]
              /\ IsNone(sd.optimizer)
                    => last'.ok /\ ctl'.optimizer = ctl.optimizer
              /\ (~IsNone(sd.optimizer) /\ last'.ok)
                    => OptimStateDict(ctl'.optimizer) = sd.optimizer[1]

C5_PartialLoad == [][C5_Transition]_vars

\* C5 witness: a dict with only 'training_step' was loaded after steps, and
\* the counters now differ
C5_Witness ==
    /\ last.op = "load_state_dict" /\ last.ok
    /\ IsNone(last.sd.decay_step) /\ IsNone(last.sd.optimizer)
    /\ ctl.training_step = 1 /\ ctl.decay_step = 3
    /\ ctl.optimizer.inners[1].updates > 0

\* C9: a controller with the 'stlr' decay always has warmup_steps <
\* train_steps, setup having rejected every other configuration, and its
\* stlr_decay never fails when called.
C9_StlrCheckedAtSetup ==
    (ctl.tag = "ctl" /\ ctl.decay_fn.kind = "stlr")
       => /\ ctl.decay_fn.warmup_steps < ctl.decay_fn.train_steps
          /\ learning_rate(ctl).ok
          /\ IsStep => last.ok
----------------------------------------------------------------------------
(* Claims about resuming, checked under SpecResume *)

\* the controller Optimizer(...) builds from options, before any load
Fresh(opt) ==
    NewOptimizer(build_torch_optimizer(ResumeModel, opt, NoApex).optimizer,
                 opt.learning_rate, make_learning_rate_decay_fn(opt).fn,
                 opt.max_grad_norm)

\* c with its counters and its optimizer's state as construction leaves them
Reset(c) ==
    [c EXCEPT !.training_step = 1, !.decay_step = 1,
              !.optimizer.inners =
                  [i \in 1..Len(c.optimizer.inners) |->
                      [c.optimizer.inners[i] EXCEPT !.updates = 0]]]

BuiltFrom(c, opt) == Reset(c) = Fresh(opt)

\* the counters of c are the ones the checkpoint's state dict sd holds
CountersFrom(c, sd) ==
    /\ c.training_step = sd.training_step[1]
    /\ c.decay_step = sd.decay_step[1]

\* the optimizer state of c is the one the state dict sd holds; a checkpoint
\* that an earlier 'states' resume has stripped of it holds none to restore
OptimizerFrom(c, sd) ==
    ~IsNone(sd.optimizer) => OptimStateDict(c.optimizer) = sd.optimizer[1]

FreshOptimizer(c) == c.optimizer = Reset(c).optimizer

\* C4: from_opt with train_from and a checkpoint applies one reset policy.
\* 'none': built from the checkpoint's options, counters and optimizer state
\* from the checkpoint.  'all': built from the current options, counters 1,
\* optimizer state fresh.  'states': built from the checkpoint's options,
\* counters from the checkpoint, optimizer state fresh.  'keep_states': built
\* from the current options, counters and optimizer state from the
\* checkpoint.  Without train_from or without a checkpoint: as under 'all'.
C4_Transition ==
    (last'.op = "from_opt" /\ last'.ok)
       => LET opt == last'.opt
              c == ctl'
          IN  IF opt.train_from /\ ckpt.tag = "ckpt"
              THEN LET sd == CkptStateDict(ckpt)
                   IN  /\ opt.reset_optim = "none"
                          => /\ BuiltFrom(c, ckpt.opt)
                             /\ CountersFrom(c, sd)
                             /\ OptimizerFrom(c, sd)
                       /\ opt.reset_optim = "all" => c = Fresh(opt)
                       /\ opt.reset_optim = "states"
                          => /\ BuiltFrom(c, ckpt.opt)
                             /\ CountersFrom(c, sd)
                             /\ FreshOptimizer(c)
                       /\ opt.reset_optim = "keep_states"
                          => /\ BuiltFrom(c, opt)
                             /\ CountersFrom(c, sd)
                             /\ OptimizerFrom(c, sd)
              ELSE c = Fresh(opt)

C4_ResetPolicies == [][C4_Transition]_vars

\* C4 witness: a 'states' resume under other options than the checkpoint's
\* has kept the checkpoint's counters and options and dropped its optimizer
\* state
C4_Witness ==
    /\ last.op = "from_opt" /\ last.ok
    /\ last.opt.train_from /\ last.opt.reset_optim = "states"
    /\ ctl.training_step = 3 /\ ctl.decay_step = 3
    /\ ctl.optimizer.inners[1].updates = 0
    /\ ctl.learning_rate # last.opt.learning_rate
----------------------------------------------------------------------------
(* The state_dict round trip: ctl's state_dict is loaded back into ctl, or *)
(* into twin, a controller built afresh from the same options; from then   *)
(* on every step() is made on both.                                        *)

\* ctl.load_state_dict(ctl.state_dict())
RoundTripSelf ==
    /\ ctl.tag = "ctl"
    /\ twin.tag = "none"
    /\ LET r == load_state_dict(ctl, state_dict(ctl))
       IN  /\ ctl' = r.ctl
           /\ last' = Last("roundtrip_self", r.ok, DefaultOpt, state_dict(ctl))
    /\ trace' = <<>>
    /\ UNCHANGED <<twin, ckpt, hist>>
    /\ UNCHANGED ada

\* twin = Optimizer.from_opt(model, opt); twin.load_state_dict(ctl.state_dict())
RoundTripFresh ==
    /\ ctl.tag = "ctl"
    /\ twin.tag = "none"
    /\ LET built == from_opt(ModelOf(hist.opt, TRUE), hist.opt, NoCkpt, hist.apex)
           r == load_state_dict(built.ctl, state_dict(ctl))
       IN  /\ built.ok
           /\ twin' = r.ctl
           /\ last' = Last("roundtrip_fresh", r.ok, DefaultOpt, state_dict(ctl))
    /\ trace' = <<>>
    /\ UNCHANGED <<ctl, ckpt, hist>>
    /\ UNCHANGED ada

\* ctl.step() and twin.step() on the same gradients
StepBoth ==
    /\ ctl.tag = "ctl"
    /\ twin.tag = "ctl"
    /\ Capped(ctl)
    /\ Capped(twin)
    /\ \E grad \in Grads :
          LET r == step(ctl, grad)
              t == step(twin, grad)
          IN  /\ ctl' = r.ctl
              /\ twin' = t.ctl
              /\ trace' = r.calls
              /\ last' = Last("step", r.ok, DefaultOpt, NoDict)
    /\ UNCHANGED <<ckpt, hist>>
    /\ UNCHANGED ada

NextTwin == Construct \/ Step \/ RoundTripSelf \/ RoundTripFresh \/ StepBoth

SpecTwin == Init /\ [][NextTwin]_vars

\* C6: loading ctl.state_dict() into ctl itself or into a controller built
\* afresh from the same options gives the same training_step and decay_step,
\* and after every further sequence of step() calls made on both, the two
\* return the same learning_rate().
C6_Transition ==
    /\ twin'.tag = "ctl"
          => /\ twin'.training_step = ctl'.training_step
             /\ twin'.decay_step = ctl'.decay_step
             /\ learning_rate(twin') = learning_rate(ctl')
    /\ last'.op \in {"roundtrip_self", "roundtrip_fresh"} => last'.ok
    /\ last'.op = "roundtrip_self"
          => /\ ctl'.training_step = ctl.training_step
             /\ ctl'.decay_step = ctl.decay_step
             /\ learning_rate(ctl') = learning_rate(ctl)

C6_RoundTrip == [][C6_Transition]_vars

\* C6 witness: a fresh controller loaded after two steps has taken a further
\* step beside the original, at a decayed learning rate
C6_Witness ==
    /\ twin.tag = "ctl"
    /\ IsStep /\ last.ok
    /\ hist.steps = 2
    /\ twin.decay_step = 4
    /\ twin.decay_fn.kind # "none"
    /\ learning_rate(twin).ok
----------------------------------------------------------------------------
(* Building: build_torch_optimizer and from_opt over the configurations,   *)
(* each on the model its options describe.                                 *)

\* the configurations that exercise the checks on the options
CheckedOpts ==
    {[DefaultOpt EXCEPT !.optim = o, !.disc_ft = d, !.decoder_type = t,
                        !.share_decoder_embeddings = s, !.simple_fusion = u,
                        !.copy_attn = c, !.full_gen_bias = b] :
        o \in {"sgd", "adagrad", "adadelta", "adafactor", "adam", "fusedadam",
               "sparseadam", "lbfgs"},
        d \in {RZero, RInt(2)},
        t \in {W_transformer, W_rnn, W_cnn},
        s \in BOOLEAN, u \in BOOLEAN, c \in BOOLEAN, b \in BOOLEAN}

\* the configurations that exercise the grouping
GroupedOpts ==
    {[DefaultOpt EXCEPT !.optim = "adam", !.disc_ft = d, !.dec_layers = n,
                        !.dec_lr_factor = f, !.share_decoder_embeddings = s,
                        !.encdec_share_params = e, !.share_embeddings = m,
                        !.full_context_lr = x] :
        d \in {RInt(2), RInt(3), Rat(1, 2)},
        n \in 0..MaxLayers,
        f \in {RZero, ROne, RInt(2)},
        s \in BOOLEAN, e \in BOOLEAN, m \in BOOLEAN, x \in BOOLEAN}

BuildOpts == CheckedOpts \cup GroupedOpts

\* build_torch_optimizer(model, opt) and Optimizer.from_opt(model, opt), once
Build ==
    /\ last.op = "init"
    /\ \E opt \in BuildOpts, has_encoder \in BOOLEAN :
          LET model == ModelOf(opt, has_encoder)
              built == build_torch_optimizer(model, opt, NoApex)
              r == from_opt(model, opt, NoCkpt, NoApex)
          IN  /\ ctl' = r.ctl
              /\ last' = [Last("build", built.ok, opt, NoDict) EXCEPT
                             !.fn_in = <<has_encoder>>, !.fn_out = <<built>>]
              /\ hist' = BuiltHist(opt, NoApex, FALSE)
    /\ trace' = <<>>
    /\ UNCHANGED <<twin, ckpt>>
    /\ UNCHANGED ada

NextBuild == Build \/ Step

SpecBuild == Init /\ [][NextBuild]_vars

\* the groups of the optimizer that the last build returned
BuiltGroups == param_groups(last.fn_out[1].optimizer)

\* the factor of group i
FactorOf(groups, i) == groups[i].factor[1]

InGroup(name, group) == \E k \in 1..Len(group.params) : group.params[k] = name

\* C7: with disc_ft = d > 0, dec_layers = N and dec_lr_factor = f the
\* decoder-side groups are tail, layer N-1, ..., layer 0, embeddings, N + 2 of
\* them, the i-th (i = 0..N+1) with factor 1/(f * d^i); for N = 3 and d = 2
\* these are 1/f, 1/(2f), 1/(4f), 1/(8f), 1/(16f), strictly decreasing; an
\* encoder group, when encoder parameters are collected, comes first with
\* factor 1.
C7_DiscFtFactors ==
    (last.op = "build" /\ last.ok /\ DiscFt(last.opt))
       => LET groups == BuiltGroups
              N == last.opt.dec_layers
              f == last.opt.dec_lr_factor
              d == last.opt.disc_ft
              collected == last.fn_in[1] /\ ~last.opt.encdec_share_params
              e == IF collected THEN 1 ELSE 0
          IN  /\ Len(groups) = e + N + 2
              /\ collected
                    => /\ groups[1].factor = Some(ROne)
                       /\ InGroup(P_enc_layer, groups[1])
              /\ \A i \in 0..(N + 1) :
                    groups[e + 1 + i].factor = Some(RDiv(ROne, RMul(f, RPow(d, i))))
              /\ InGroup(P_dec_norm, groups[e + 1])
              /\ \A j \in 1..N : InGroup(P_layer_self(N - j), groups[e + 1 + j])
              /\ InGroup(P_dec_emb, groups[e + N + 2])
              /\ (N = 3 /\ d = RInt(2))
                    => /\ [i \in 1..5 |-> FactorOf(groups, e + i)]
                          = <<RDiv(ROne, f), RDiv(ROne, RMul(RInt(2), f)),
                              RDiv(ROne, RMul(RInt(4), f)), RDiv(ROne, RMul(RInt(8), f)),
                              RDiv(ROne, RMul(RInt(16), f))>>
                       /\ \A i \in 1..4 :
                             RLess(FactorOf(groups, e + i + 1), FactorOf(groups, e + i))

\* C7 witness: a 3-layer decoder with disc_ft = 2 and dec_lr_factor = 2 has
\* been grouped behind an encoder group, down to 1/32 for the embeddings
C7_Witness ==
    /\ last.op = "build" /\ last.ok
    /\ last.opt.dec_layers = 3 /\ last.opt.disc_ft = RInt(2)
    /\ last.opt.dec_lr_factor = RInt(2)
    /\ Len(BuiltGroups) = 6
    /\ BuiltGroups[1].factor = Some(ROne)
    /\ BuiltGroups[6].factor = Some(Rat(1, 32))

\* the configurations the claim lists as rejected
ListedAsRejected(opt) ==
    \/ DiscFt(opt) /\ opt.optim \notin {"adam", "fusedadam"}
    \/ DiscFt(opt) /\ ~Contains(W_transformer, opt.decoder_type)
    \/ DiscFt(opt) /\ opt.share_decoder_embeddings /\ opt.simple_fusion
    \/ DiscFt(opt) /\ opt.share_decoder_embeddings /\ opt.copy_attn
       /\ opt.full_gen_bias
    \/ opt.optim \notin {"sgd", "adagrad", "adadelta", "adafactor", "adam",
                         "fusedadam", "sparseadam"}

----------------------------------------------------------------------------
(* The decay functions called by themselves, through the function that     *)
(* make_learning_rate_decay_fn returns for the options.                    *)

DecayRates == {RZero, Rat(1, 2), ROne, RInt(2)}

\* make_learning_rate_decay_fn(opt)(step) for the exponential decay
EvalExponential ==
    /\ \E at \in 0..MaxDecayStep, rate \in DecayRates,
          decay_steps \in 1..MaxDecaySteps, start_step \in 0..MaxDecayStep :
          LET opt == [DefaultOpt EXCEPT !.start_decay_steps = Some(start_step),
                                        !.decay_steps = decay_steps,
                                        !.learning_rate_decay = rate]
              made == make_learning_rate_decay_fn(opt)
          IN  last' = [Last("exponential_decay", made.ok, opt, NoDict) EXCEPT
                          !.fn_in = <<at, rate, decay_steps, start_step>>,
                          !.fn_out = <<CallDecayFn(made.fn, at)>>]
    /\ UNCHANGED <<ctl, twin, ckpt, trace, hist>>
    /\ UNCHANGED ada

NextDecay == EvalExponential

SpecDecay == Init /\ [][NextDecay]_vars

IsExponential == last.op = "exponential_decay"
FnStep == last.fn_in[1]
FnRate == last.fn_in[2]
FnDecaySteps == last.fn_in[3]
FnStartStep == last.fn_in[4]

\* C8 as stated: at every step with 0 <= step - start_step < decay_steps
\* exponential_decay returns rate^0 = 1.
C8_AsStated ==
    (IsExponential /\ 0 <= FnStep - FnStartStep
                   /\ FnStep - FnStartStep < FnDecaySteps)
       => last.fn_out[1] = Ok(FALSE, ROne)

\* C8 amended: at every step with 0 <= step - start_step < decay_steps
\* exponential_decay returns rate^1 = rate, the first decay being applied at
\* start_step itself; it returns rate^0 = 1 at every step before start_step.
C8_ExponentAtStart ==
    /\ (IsExponential /\ 0 <= FnStep - FnStartStep
                      /\ FnStep - FnStartStep < FnDecaySteps)
          => last.fn_out[1] = Ok(FALSE, FnRate)
    /\ (IsExponential /\ FnStep < FnStartStep)
          => last.fn_out[1] = Ok(FALSE, ROne)

\* C8 witness: the decay was called at step = start_step and returned rate
C8_Witness ==
    /\ IsExponential
    /\ FnStep = FnStartStep /\ FnStep > 0
    /\ FnRate = Rat(1, 2)
    /\ last.fn_out[1] = Ok(FALSE, Rat(1, 2))
----------------------------------------------------------------------------
(* MultipleOptimizer by itself: one made over 1..MaxOptimizers optimizers, *)
(* held as the optimizer of ctl, is stepped and given lists of state       *)
(* dicts to load.                                                          *)

\* the i-th optimizer: one group, of i parameters
NthInner(i) ==
    Inner("Adam", <<Group([k \in 1..i |-> P_dec_norm], None, Some(Ok(FALSE, ROne)))>>)

\* MultipleOptimizer(op) over n optimizers
NewMultiple ==
    /\ last.op = "init"
    /\ \E n \in 1..MaxOptimizers :
          /\ ctl' = NewOptimizer(Optim("MultipleOptimizer", [i \in 1..n |-> NthInner(i)]),
                                 ROne, NoDecayFn, None)
          /\ last' = Last("MultipleOptimizer", TRUE, DefaultOpt, NoDict)
    /\ trace' = <<>>
    /\ UNCHANGED <<twin, ckpt, hist>>
    /\ UNCHANGED ada

\* MultipleOptimizer.step()
MultipleStep ==
    /\ ctl.tag = "ctl"
    /\ \A i \in 1..Len(ctl.optimizer.inners) :
          ctl.optimizer.inners[i].updates < MaxStep - 1
    /\ LET r == OptimStep(ctl.optimizer, "dense")
       IN  /\ ctl' = [ctl EXCEPT !.optimizer = r.optimizer]
           /\ last' = Last("multiple.step", r.ok, DefaultOpt, NoDict)
    /\ trace' = <<>>
    /\ UNCHANGED <<twin, ckpt, hist>>
    /\ UNCHANGED ada

\* the entries a list may hold at position i: a state dict of the i-th
\* optimizer with no or two updates, or one of an optimizer of another shape
EntriesAt(i) ==
    {[updates |-> 0, sizes |-> <<i>>], [updates |-> 2, sizes |-> <<i>>],
     [updates |-> 1, sizes |-> <<i + 1>>]}

\* the lists of at most n entries
RECURSIVE StateDictLists(_)
StateDictLists(n) ==
    IF n = 0 THEN {<<>>}
    ELSE StateDictLists(n - 1)
         \cup {Append(l, e) : l \in {x \in StateDictLists(n - 1) : Len(x) = n - 1},
                              e \in EntriesAt(n)}

\* MultipleOptimizer.load_state_dict(state_dicts)
MultipleLoadStateDict ==
    /\ ctl.tag = "ctl"
    /\ \E state_dicts \in StateDictLists(Len(ctl.optimizer.inners) + 1) :
          LET r == MultipleLoad(ctl.optimizer.inners, state_dicts)
          IN  /\ ctl' = [ctl EXCEPT !.optimizer.inners = r.inners]
              /\ last' = [Last("multiple.load_state_dict", r.ok, DefaultOpt, NoDict)
                             EXCEPT !.fn_in = <<state_dicts>>]
    /\ trace' = <<>>
    /\ UNCHANGED <<twin, ckpt, hist>>
    /\ UNCHANGED ada

\* MultipleOptimizer.load_state_dict(MultipleOptimizer.state_dict())
MultipleRoundTrip ==
    /\ ctl.tag = "ctl"
    /\ LET state_dicts == OptimStateDict(ctl.optimizer).states
           r == MultipleLoad(ctl.optimizer.inners, state_dicts)
       IN  /\ ctl' = [ctl EXCEPT !.optimizer.inners = r.inners]
           /\ last' = [Last("multiple.roundtrip", r.ok, DefaultOpt, NoDict)
                          EXCEPT !.fn_in = <<state_dicts>>]
    /\ trace' = <<>>
    /\ UNCHANGED <<twin, ckpt, hist>>
    /\ UNCHANGED ada

NextMulti ==
    NewMultiple \/ MultipleStep \/ MultipleLoadStateDict \/ MultipleRoundTrip

SpecMulti == Init /\ [][NextMulti]_vars

\* C11: MultipleOptimizer.load_state_dict of a list whose length differs from
\* the number of optimizers fails and changes the state of none of them; of
\* a list of that length, it loads the i-th entry into the i-th optimizer,
\* when it returns; load_state_dict(state_dict()) returns and leaves the
\* state of every optimizer as it was.
C11_Transition ==
    /\ last'.op = "multiple.load_state_dict"
          => LET state_dicts == last'.fn_in[1]
                 n == Len(ctl.optimizer.inners)
             IN  /\ Len(state_dicts) # n
                       => ~last'.ok /\ ctl'.optimizer = ctl.optimizer
                 /\ (Len(state_dicts) = n /\ last'.ok)
                       => /\ Len(ctl'.optimizer.inners) = n
                          /\ \A i \in 1..n :
                                InnerStateDict(ctl'.optimizer.inners[i]) = state_dicts[i]
    /\ last'.op = "multiple.roundtrip"
          => last'.ok /\ ctl'.optimizer = ctl.optimizer

C11_MultipleLoad == [][C11_Transition]_vars

\* C11 witness: a list of two entries was refused by three optimizers whose
\* states differ from one another and from the entries
C11_Witness ==
    /\ last.op = "multiple.load_state_dict" /\ ~last.ok
    /\ Len(last.fn_in[1]) = 2
    /\ Len(ctl.optimizer.inners) = 3
    /\ ctl.optimizer.inners[1].updates = 3
    /\ ctl.optimizer.inners[2].updates = 1
    /\ last.fn_in[1][1].updates = 2
----------------------------------------------------------------------------
(* AdaFactor.  A shape is the sequence of a tensor's dimensions; the state *)
(* of a parameter is kept as its 'step' and the shapes of the tensors it   *)
(* holds, None for a key it lacks.                                         *)

RECURSIVE Prod(_)
Prod(dims) == IF dims = <<>> THEN 1 ELSE Head(dims) * Prod(Tail(dims))

\* a rule that takes only tensors of more than two dimensions for matrices
CheckShapeAboveTwo(shape) ==
    IF Len(shape) > 2 THEN [is_matrix |-> TRUE, is_need_reshape |-> TRUE]
    ELSE [is_matrix |-> FALSE, is_need_reshape |-> FALSE]

\* AdaFactor._check_shape: (is_matrix, is_need_reshape)
CheckShape(shape) ==
    IF Len(shape) > 2 THEN [is_matrix |-> TRUE, is_need_reshape |-> TRUE]
    ELSE IF Len(shape) = 2 THEN [is_matrix |-> TRUE, is_need_reshape |-> FALSE]
    ELSE [is_matrix |-> FALSE, is_need_reshape |-> FALSE]

\* AdaFactor._experimental_reshape: new_shape, for a shape of 3 or more
\* dimensions
ExperimentalReshape(shape) ==
    LET temp_shape == SubSeq(shape, 3, Len(shape))
    IN  IF Len(temp_shape) = 1 THEN <<shape[1], shape[2] * shape[3]>>
        ELSE LET tmp_div == (Len(temp_shape) \div 2) + (Len(temp_shape) % 2)
             IN  <<shape[1] * Prod(SubSeq(temp_shape, tmp_div + 1, Len(temp_shape))),
                   shape[2] * Prod(SubSeq(temp_shape, 1, tmp_div))>>

\* self.state[p] of a parameter that step() has not reached: an empty dict
NoState ==
    [step |-> None, exp_avg |-> None, exp_avg_sq |-> None, exp_avg_sq_R |-> None,
     exp_avg_sq_C |-> None, exp_avg_sq_hat |-> None]

\* new_shape in step()
NewShape(shape, group) ==
    IF CheckShape(shape).is_need_reshape /\ group.enable_factorization
    THEN ExperimentalReshape(shape) ELSE shape

\* the state step() makes for a parameter whose state is empty
InitState(shape, group) ==
    LET new_shape == NewShape(shape, group)
        factored == CheckShape(shape).is_matrix /\ group.enable_factorization
    IN  [step |-> Some(0),
         exp_avg |-> IF group.enable_momentum THEN Some(new_shape) ELSE None,
         exp_avg_sq |-> IF factored THEN None ELSE Some(new_shape),
         exp_avg_sq_R |-> IF factored THEN Some(<<1, new_shape[2]>>) ELSE None,
         exp_avg_sq_C |-> IF factored THEN Some(<<new_shape[1], 1>>) ELSE None,
         exp_avg_sq_hat |-> IF group.ams_grad THEN Some(new_shape) ELSE None]

\* the reads of the state that follow: a key that is missing raises KeyError
StateReadable(state, shape, group) ==
    /\ group.enable_momentum => ~IsNone(state.exp_avg)
    /\ IF CheckShape(shape).is_matrix /\ group.enable_factorization
       THEN ~IsNone(state.exp_avg_sq_R) /\ ~IsNone(state.exp_avg_sq_C)
       ELSE ~IsNone(state.exp_avg_sq)
    /\ group.ams_grad => ~IsNone(state.exp_avg_sq_hat)

\* AdaFactor.__init__: one group over params (their shapes), with the
\* defaults it computes; lr is None until it is given
NewAdaFactor(params, lr, enable_momentum, non_constant_decay, enable_factorization, ams_grad) ==
    [tag |-> "adafactor", params |-> params,
     group |-> [lr |-> lr, enable_momentum |-> enable_momentum,
                non_constant_decay |-> non_constant_decay,
                enable_factorization |-> enable_factorization,
                ams_grad |-> IF non_constant_decay THEN FALSE ELSE ams_grad],
     state |-> [i \in 1..Len(params) |-> NoState],
     had |-> [i \in 1..Len(params) |-> 0], calls |-> 0, raised |-> FALSE]

\* the loop of AdaFactor.step from parameter i on; grads[i] is "none" for a
\* parameter without gradient, "dense" or "sparse": [ok, state]
RECURSIVE AdaStepFrom(_, _, _, _)
AdaStepFrom(a, state, grads, i) ==
    IF i > Len(a.params) THEN [ok |-> TRUE, state |-> state]
    ELSE IF grads[i] = "none" THEN AdaStepFrom(a, state, grads, i + 1)
    ELSE IF grads[i] = "sparse" THEN [ok |-> FALSE, state |-> state]
    ELSE LET s0 == IF state[i] = NoState THEN InitState(a.params[i], a.group)
                   ELSE state[i]
             s1 == [s0 EXCEPT !.step = Some(@[1] + 1)]
         IN  IF ~StateReadable(s0, a.params[i], a.group)
             THEN [ok |-> FALSE, state |-> [state EXCEPT ![i] = s0]]
             ELSE IF IsNone(a.group.lr)
             THEN [ok |-> FALSE, state |-> [state EXCEPT ![i] = s1]]
             ELSE AdaStepFrom(a, [state EXCEPT ![i] = s1], grads, i + 1)

\* AdaFactor.step: [ok, state]
AdaStep(a, grads) == AdaStepFrom(a, a.state, grads, 1)

(* AdaFactor by itself.  ada is the instance; its had, calls and raised    *)
(* are history: the number of step() calls in which each parameter had a   *)
(* gradient, the number of step() calls, and whether one of them raised.   *)

Shapes == {<<>>, <<3>>, <<2, 3>>, <<1, 3>>, <<2, 3, 2>>, <<2, 3, 2, 2>>}

\* AdaFactor(params, ...) as build_torch_optimizer calls it, and with the
\* other settings of factorization and decay
ConstructAdaFactor ==
    /\ ada.tag = "none"
    /\ \E p1 \in Shapes, p2 \in Shapes, f \in BOOLEAN, n \in BOOLEAN :
          ada' = NewAdaFactor(<<p1, p2>>, None, TRUE, n, f, TRUE)
    /\ last' = Last("AdaFactor", TRUE, DefaultOpt, NoDict)
    /\ UNCHANGED <<ctl, twin, ckpt, trace, hist>>

\* group['lr'] is assigned, as Optimizer.step does before the optimizer's step
AdaSetLr ==
    /\ ada.tag = "adafactor"
    /\ IsNone(ada.group.lr)
    /\ ada' = [ada EXCEPT !.group.lr = Some(Ok(FALSE, ROne))]
    /\ last' = Last("set_lr", TRUE, DefaultOpt, NoDict)
    /\ UNCHANGED <<ctl, twin, ckpt, trace, hist>>

GradKinds == {"none", "dense", "sparse"}

\* AdaFactor.step() with gradients of the given kinds on the parameters
AdaFactorStep ==
    /\ ada.tag = "adafactor"
    /\ ada.calls < MaxAdaSteps
    /\ \E g1 \in GradKinds, g2 \in GradKinds :
          LET grads == <<g1, g2>>
              r == AdaStep(ada, grads)
          IN  /\ ada' = [ada EXCEPT
                            !.state = r.state,
                            !.had = [i \in 1..Len(ada.params) |->
                                        IF grads[i] = "none" THEN ada.had[i]
                                        ELSE ada.had[i] + 1],
                            !.calls = @ + 1,
                            !.raised = @ \/ ~r.ok]
              /\ last' = [Last("adafactor.step", r.ok, DefaultOpt, NoDict)
                             EXCEPT !.fn_in = <<grads>>]
    /\ UNCHANGED <<ctl, twin, ckpt, trace, hist>>

NextAda == ConstructAdaFactor \/ AdaSetLr \/ AdaFactorStep

SpecAda == Init /\ [][NextAda]_vars

HasDense(state) == ~IsNone(state.exp_avg_sq)
HasPair(state) == ~IsNone(state.exp_avg_sq_R) /\ ~IsNone(state.exp_avg_sq_C)
HasHalfPair(state) == ~IsNone(state.exp_avg_sq_R) \/ ~IsNone(state.exp_avg_sq_C)

\* what the claim says of parameter i of a
StateAsClaimed(a, i) ==
    /\ a.had[i] = 0 => a.state[i] = NoState
    /\ a.had[i] > 0
          => /\ HasDense(a.state[i]) # HasHalfPair(a.state[i])
             /\ HasHalfPair(a.state[i]) => HasPair(a.state[i])
             /\ HasPair(a.state[i])
                   <=> (Len(a.params[i]) >= 2 /\ a.group.enable_factorization)
             /\ a.state[i].step = Some(a.had[i])

\* C12 as stated: after any sequence of step() calls, a parameter whose
\* gradient was never present has no state, every other parameter holds
\* exactly one of exp_avg_sq and the row/column pair, the pair exactly when
\* its rank is >= 2 and factorization is enabled, and its step counter is the
\* number of step() calls in which it had a gradient.
C12_AsStated ==
    ada.tag = "adafactor" => \A i \in 1..Len(ada.params) : StateAsClaimed(ada, i)

\* C12 amended: the same after any sequence of step() calls that all return;
\* and after any sequence of step() calls, a parameter whose gradient was
\* never present has no state, a parameter with state holds exactly one of
\* exp_avg_sq and the row/column pair, the pair exactly when its rank is >= 2
\* and factorization is enabled, its step counter is at least 1 and at most
\* the number of step() calls in which it had a gradient, and the tensors it
\* holds are those of the first step that reached it.
C12_Transition ==
    ada'.tag = "adafactor"
       => \A i \in 1..Len(ada'.params) :
             /\ ~ada'.raised => StateAsClaimed(ada', i)
             /\ ada'.had[i] = 0 => ada'.state[i] = NoState
             /\ ada'.state[i] # NoState
                   => /\ HasDense(ada'.state[i]) # HasHalfPair(ada'.state[i])
                      /\ HasHalfPair(ada'.state[i]) => HasPair(ada'.state[i])
                      /\ HasPair(ada'.state[i])
                            <=> (Len(ada'.params[i]) >= 2
                                 /\ ada'.group.enable_factorization)
                      /\ ada'.state[i].step[1] >= 1
                      /\ ada'.state[i].step[1] <= ada'.had[i]
             /\ (ada.tag = "adafactor" /\ ada.state[i] # NoState)
                   => ada'.state[i] = [ada.state[i] EXCEPT !.step = ada'.state[i].step]

C12_AdaFactorState == [][C12_Transition]_vars

\* C12 witness: after step() calls that all returned, a matrix holds the
\* pair, a vector beside it holds exp_avg_sq, and the vector has missed a
\* step
C12_Witness ==
    /\ ada.tag = "adafactor" /\ ~ada.raised
    /\ last.op = "adafactor.step"
    /\ ada.params = <<<<2, 3>>, <<3>>>>
    /\ ada.state[1].step = Some(3) /\ HasPair(ada.state[1])
    /\ ada.state[2].step = Some(2) /\ HasDense(ada.state[2])
    /\ ~HasHalfPair(ada.state[2])
----------------------------------------------------------------------------
(* The checkpoint across from_opt, checked under SpecResume *)

\* C13: from_opt does not modify the checkpoint it is given: under every
\* reset policy the checkpoint's 'optim' entry has the same keys and values
\* after from_opt as before it, so the same checkpoint can be resumed from
\* again with the same result.
C13_Transition ==
    last'.op = "from_opt" => ckpt' = ckpt

C13_CheckpointUnmodified == [][C13_Transition]_vars

====
